---------------------------- MODULE Spec2Model ----------------------------
(***************************************************************************)
(* Energy consumption forecasting: the data loader (src/data_loader.py)    *)
(* and the preprocessor (src/preprocessing.py).                            *)
(*                                                                         *)
(* A table is a sequence of rows [t |-> timestamp, v |-> column values].   *)
(* A cell is an exact rational <<numerator, denominator>> (denominator     *)
(* > 0, lowest terms) or NaN == <<0, 0>>; the floating-point arithmetic of *)
(* pandas / numpy / scipy is modelled by exact rational arithmetic.        *)
(***************************************************************************)
EXTENDS Integers, Sequences, FiniteSets, TLC

VARIABLES
    config,     \* self.config: fill_method, outlier_threshold, aggregation_level
    input,      \* the table handed to the public operation
    arg,        \* the table the most recently called stage received
    filled,     \* handle_missing_values: the local df after the fillna step
    df,         \* the current / returned table
    columns,    \* remove_outliers: the columns it iterates over, in order
    op,         \* the public operation that was called
    calls,      \* the stages called so far, in call order
    raised,     \* the exception that left the operation, "none" if none
    report,     \* remove_outliers: <<removed, percentage>> it printed
    files,      \* the processed directory: file name -> content
    name,       \* load/save_processed_data: the filename argument
    reads,      \* number of pd.read_csv calls made
    pc          \* "running", "returned" or "raised"

vars == <<config, input, arg, filled, df, columns, op, calls, raised, report,
          files, name, reads, pc>>

---------------------------------------------------------------------------
(* Bounds of the model.                                                    *)

MaxRows == 8
MaxAggRows == 3
MaxAggTime == 3
MaxOutRows == 4
MaxPipeTime == 3
MaxOps == 2

---------------------------------------------------------------------------
(* Numbers.                                                                *)

Abs(x) == IF x < 0 THEN -x ELSE x

RECURSIVE GCD(_, _)
GCD(a, b) == IF b = 0 THEN a ELSE GCD(b, a % b)

Norm(n, d) == LET g == GCD(Abs(n), d) IN <<n \div g, d \div g>>

NaN == <<0, 0>>
IsNaN(x) == x[2] = 0
R(n) == <<n, 1>>

RAdd(x, y) ==
    IF IsNaN(x) \/ IsNaN(y) THEN NaN
    ELSE Norm(x[1] * y[2] + y[1] * x[2], x[2] * y[2])

RSub(x, y) ==
    IF IsNaN(x) \/ IsNaN(y) THEN NaN
    ELSE Norm(x[1] * y[2] - y[1] * x[2], x[2] * y[2])

RMul(x, y) ==
    IF IsNaN(x) \/ IsNaN(y) THEN NaN
    ELSE Norm(x[1] * y[1], x[2] * y[2])

\* x / n for a count n; 0/0 and x/0 give NaN as numpy's float division does.
RDivInt(x, n) ==
    IF IsNaN(x) \/ n = 0 THEN NaN ELSE Norm(x[1], x[2] * n)

\* x < y; any comparison with NaN is False.
RLess(x, y) ==
    /\ ~IsNaN(x)
    /\ ~IsNaN(y)
    /\ x[1] * y[2] < y[1] * x[2]

RECURSIVE RSum(_)
RSum(s) == IF s = <<>> THEN R(0) ELSE RAdd(s[1], RSum(Tail(s)))

SetMax(S) == CHOOSE m \in S : \A x \in S : x <= m
SetMin(S) == CHOOSE m \in S : \A x \in S : m <= x

Reverse(s) == [i \in 1..Len(s) |-> s[Len(s) + 1 - i]]

\* The element of a one-element set.  The({e : x \in {v}}) is e with x bound
\* to the value of v, v being evaluated once.
The(S) == CHOOSE r \in S : TRUE

---------------------------------------------------------------------------
(* Tables.                                                                 *)

MeanCols == <<"Global_active_power", "Global_reactive_power", "Voltage",
              "Global_intensity">>
SumCols == <<"Sub_metering_1", "Sub_metering_2", "Sub_metering_3">>
Cols == MeanCols \o SumCols
ColSet == {Cols[i] : i \in 1..Len(Cols)}

Column(t, c) == [i \in 1..Len(t) |-> t[i].v[c]]

\* The table t with each column c replaced by f[c] (same length).
WithColumns(t, f) ==
    The({ [i \in 1..Len(t) |->
              [t[i] EXCEPT !.v = [c \in DOMAIN t[i].v |-> g[c][i]]]]
          : g \in {f} })

TableCols(t) == IF t = <<>> THEN ColSet ELSE DOMAIN t[1].v

\* df[mask]: the rows whose mask entry is TRUE, in order.
RECURSIVE Select(_, _)
Select(t, mask) ==
    IF t = <<>> THEN <<>>
    ELSE (IF mask[1] THEN <<t[1]>> ELSE <<>>) \o Select(Tail(t), Tail(mask))

---------------------------------------------------------------------------
(* DataPreprocessor.handle_missing_values                                  *)

FillLimit == 6

\* pandas pad with a limit: a forward scan that carries the last valid value
\* and the number of entries filled since it.
RECURSIVE Pad(_, _, _, _)
Pad(s, limit, last, count) ==
    IF s = <<>> THEN <<>>
    ELSE IF ~IsNaN(s[1]) THEN <<s[1]>> \o Pad(Tail(s), limit, s[1], 0)
    ELSE IF IsNaN(last) \/ count >= limit
         THEN <<NaN>> \o Pad(Tail(s), limit, last, count)
         ELSE <<last>> \o Pad(Tail(s), limit, last, count + 1)

FFill(s, limit) == Pad(s, limit, NaN, 0)
BFill(s, limit) == Reverse(Pad(Reverse(s), limit, NaN, 0))

\* df.fillna(method=fill_method, limit=6), column by column.
Fillna(t, method) ==
    WithColumns(t, [c \in TableCols(t) |->
        IF method = "ffill" THEN FFill(Column(t, c), FillLimit)
        ELSE BFill(Column(t, c), FillLimit)])

\* Series.interpolate(method='linear', limit_direction='both'): positions are
\* equally spaced; an inner gap is the straight line between its valid
\* neighbours, a gap at either end repeats the nearest valid value, and a
\* column with no valid value is left as it is.
InterpolateColumn(s) ==
    LET valid == {j \in 1..Len(s) : ~IsNaN(s[j])}
    IN  IF valid = {} THEN s
        ELSE [i \in 1..Len(s) |->
                IF i \in valid THEN s[i]
                ELSE LET before == {j \in valid : j < i}
                         after == {j \in valid : j > i}
                     IN  IF before = {} THEN s[SetMin(after)]
                         ELSE IF after = {} THEN s[SetMax(before)]
                         ELSE LET l == SetMax(before)
                                  r == SetMin(after)
                              IN  RAdd(s[l],
                                       RDivInt(RMul(RSub(s[r], s[l]), R(i - l)),
                                               r - l))]

Interpolate(t) ==
    WithColumns(t, [c \in TableCols(t) |-> InterpolateColumn(Column(t, c))])

DropnaAll(t) ==
    Select(t, [i \in 1..Len(t) |-> \E c \in TableCols(t) : ~IsNaN(t[i].v[c])])

\* df.dropna(): a row with a missing value in any column is dropped.
Dropna(t) ==
    Select(t, [i \in 1..Len(t) |-> \A c \in TableCols(t) : ~IsNaN(t[i].v[c])])

handle_missing_values(t, cfg) == Dropna(Interpolate(Fillna(t, cfg.fill_method)))

---------------------------------------------------------------------------
(* DataPreprocessor.aggregate_data                                         *)

\* The resample bucket of a timestamp: buckets are [k*P, (k+1)*P), labelled
\* by their left edge.
Bucket(ts, P) == ts \div P

Valid(s) == SelectSeq(s, LAMBDA x : ~IsNaN(x))

\* 'mean' skips missing entries and is NaN when nothing is left.
AggMean(s) == RDivInt(RSum(Valid(s)), Len(Valid(s)))

\* 'sum' skips missing entries and is 0 when nothing is left.
AggSum(s) == RSum(Valid(s))

AggFuncAllMean(c) == "mean"

\* The dictionary handed to .agg(): column -> aggregation.
AggFunc(c) ==
    IF \E i \in 1..Len(MeanCols) : MeanCols[i] = c THEN "mean" ELSE "sum"

AggIndexPerRow(t, P) == [i \in 1..Len(t) |-> Bucket(t[i].t, P)]

\* The buckets of the resampled index: every period from the earliest row's
\* to the latest row's, in increasing order, whether or not rows fall in it.
AggIndex(t, P) ==
    LET bs == {Bucket(t[i].t, P) : i \in 1..Len(t)}
        lo == SetMin(bs)
        hi == SetMax(bs)
    IN  [k \in 1..(hi - lo + 1) |-> lo + k - 1]

aggregate_data(t, cfg) ==
    IF t = <<>> THEN <<>>
    ELSE LET P == cfg.aggregation_level
             Rows(b) == Select(t, [i \in 1..Len(t) |-> Bucket(t[i].t, P) = b])
         IN  The({ [k \in 1..Len(index) |->
                      The({ [t |-> index[k] * P,
                             v |-> [c \in ColSet |->
                                      IF AggFunc(c) = "mean"
                                      THEN AggMean(Column(rows, c))
                                      ELSE AggSum(Column(rows, c))]]
                            : rows \in {Rows(index[k])} })]
                   : index \in {AggIndex(t, P)} })

---------------------------------------------------------------------------
(* DataPreprocessor.remove_outliers                                        *)

\* np.abs(stats.zscore(s)) < threshold, entry by entry.  z = (x - mean) / std
\* with the population standard deviation; for a positive threshold
\* |z| < T is (x - mean)^2 < T^2 * var.  A missing entry makes mean and std
\* NaN, a constant column has std 0 and z = NaN: the comparison is then
\* False for every entry.
ZScoreTerms(s, T) ==
    The({ The({ [sq |-> sq,
                 bound |-> RMul(RMul(T, T), RDivInt(RSum(sq), Len(s)))]
                : sq \in {[i \in 1..Len(s) |->
                             RMul(RSub(s[i], mean), RSub(s[i], mean))]} })
          : mean \in {RDivInt(RSum(s), Len(s))} })

RLessEq(x, y) == RLess(x, y) \/ (~IsNaN(x) /\ ~IsNaN(y) /\ x = y /\ x # R(0))

\* |z| <= threshold in place of |z| < threshold.
ZScoreBelowOrEqual(s, T) ==
    The({ [i \in 1..Len(s) |-> RLessEq(z.sq[i], z.bound)]
          : z \in {ZScoreTerms(s, T)} })

\* The z-scores taken over the entries that are not missing
\* (nan_policy='omit').
ZScoreBelowOmitNaN(s, T) ==
    The({ The({ [i \in 1..Len(s) |->
                   RLess(RMul(RSub(s[i], mean), RSub(s[i], mean)),
                         RMul(RMul(T, T),
                              RDivInt(RSum([j \in 1..Len(ok) |->
                                              RMul(RSub(ok[j], mean),
                                                   RSub(ok[j], mean))]),
                                      Len(ok))))]
                : mean \in {RDivInt(RSum(ok), Len(ok))} })
          : ok \in {Valid(s)} })

ZScoreBelow(s, T) ==
    The({ [i \in 1..Len(s) |-> RLess(z.sq[i], z.bound)]
          : z \in {ZScoreTerms(s, T)} })

\* All columns tested against the table as it was passed in.
FilterColumnsSetBased(t, cols, T) ==
    Select(t, [i \in 1..Len(t) |->
                 \A k \in 1..Len(cols) : ZScoreBelow(Column(t, cols[k]), T)[i]])

\* for col in columns: df = df[z_scores < threshold]
RECURSIVE FilterColumns(_, _, _)
FilterColumns(t, cols, T) ==
    IF cols = <<>> THEN t
    ELSE The({ FilterColumns(kept, Tail(cols), T)
               : kept \in {Select(t, ZScoreBelow(Column(t, cols[1]), T))} })

NoReport == <<>>

\* The outcome of remove_outliers: the exception raised ("none" if none),
\* the table returned and the <<count, percentage>> printed.
remove_outliers(t, cols, cfg) ==
    LET original_len == Len(t)
        Outcome(out) ==
            LET removed == original_len - Len(out)
            IN  IF original_len = 0
                THEN [raised |-> "ZeroDivisionError", df |-> out,
                      report |-> NoReport]
                ELSE [raised |-> "none", df |-> out,
                      report |-> <<removed,
                                   RMul(RDivInt(R(removed), original_len), R(100))>>]
    IN  The({ Outcome(out) : out \in {FilterColumns(t, cols, cfg.outlier_threshold)} })

\* columns=None: df.select_dtypes(include=[np.number]).columns
NumericColumns == Cols

---------------------------------------------------------------------------
(* The state before a public operation runs.                               *)

DefaultConfig ==
    [fill_method |-> "ffill", outlier_threshold |-> R(3), aggregation_level |-> 2]

NoFiles == [f \in {} |-> f]

Start(o, cfg, t, cols) ==
    /\ op = o
    /\ config = cfg
    /\ input = t
    /\ arg = t
    /\ filled = <<>>
    /\ df = t
    /\ columns = cols
    /\ calls = <<>>
    /\ raised = "none"
    /\ report = NoReport
    /\ files = NoFiles
    /\ name = ""
    /\ reads = 0
    /\ pc = "running"

Returned(o) == op = o /\ pc = "returned"

---------------------------------------------------------------------------
(* handle_missing_values called on its own.                                *)

FillMethods == {"ffill", "bfill"}
VoltageShapes == {"valid", "missing", "inverse"}

\* A table of n one-minute rows.  Global_active_power is present exactly where
\* pat says, Voltage follows the shape, the other columns are complete; each
\* present cell holds a value of its own row.
MissingTable(n, pat, shape) ==
    [i \in 1..n |->
        [t |-> i - 1,
         v |-> [c \in ColSet |->
                  IF c = "Global_active_power"
                  THEN (IF pat[i] THEN R(i * i) ELSE NaN)
                  ELSE IF c = "Voltage"
                  THEN (IF shape = "missing" \/ (shape = "inverse" /\ pat[i])
                        THEN NaN ELSE R(230 + i * i))
                  ELSE R(i)]]]

InitMissing ==
    \E n \in 0..MaxRows, shape \in VoltageShapes, method \in FillMethods :
        \E pat \in [1..n -> BOOLEAN] :
            Start("handle_missing_values",
                  [DefaultConfig EXCEPT !.fill_method = method],
                  MissingTable(n, pat, shape), <<>>)

CallHandleMissingValues ==
    /\ op = "handle_missing_values"
    /\ pc = "running"
    /\ filled' = Fillna(input, config.fill_method)
    /\ df' = handle_missing_values(input, config)
    /\ calls' = Append(calls, "handle_missing_values")
    /\ pc' = "returned"
    /\ UNCHANGED <<config, input, arg, columns, op, raised, report, files,
                   name, reads>>

NextMissing == CallHandleMissingValues

SpecMissing == InitMissing /\ [][NextMissing]_vars

\* C1: the table returned by handle_missing_values has no missing value in
\* any column, whatever the pattern of missing entries of its input.
C1_NoMissingAfterHandling ==
    Returned("handle_missing_values") =>
        \A i \in 1..Len(df) : \A c \in ColSet : ~IsNaN(df[i].v[c])

\* C1 witness: an input whose Global_active_power is missing at its first and
\* last rows and whose Voltage is missing in every other row has been
\* handled, and rows came back.
C1_Witness ==
    /\ Returned("handle_missing_values")
    /\ Len(input) >= 3
    /\ IsNaN(input[1].v["Global_active_power"])
    /\ IsNaN(input[Len(input)].v["Global_active_power"])
    /\ \E i \in 1..Len(input) : IsNaN(input[i].v["Voltage"])
    /\ Len(df) = Len(input)

\* The run of consecutive missing entries of s around position i:
\* <<first, last>>.
GapAround(s, i) ==
    LET valid == {j \in 1..Len(s) : ~IsNaN(s[j])}
        before == {j \in valid : j < i}
        after == {j \in valid : j > i}
    IN  <<IF before = {} THEN 1 ELSE SetMax(before) + 1,
          IF after = {} THEN Len(s) ELSE SetMin(after) - 1>>

\* C3: under forward-fill the fill step fills exactly the missing entries of
\* gaps of at most 6 consecutive missing entries, each with the last valid
\* value before it, and fills no entry of a longer gap.  (Stated for gaps
\* that have a valid value before them.)
C3_FillsExactlyShortGaps ==
    (Returned("handle_missing_values") /\ config.fill_method = "ffill") =>
        \A c \in ColSet : \A i \in 1..Len(input) :
            LET s == Column(input, c)
                gap == GapAround(s, i)
            IN  (IsNaN(s[i]) /\ gap[1] > 1) =>
                    IF gap[2] - gap[1] + 1 <= FillLimit
                    THEN filled[i].v[c] = s[gap[1] - 1]
                    ELSE IsNaN(filled[i].v[c])

---------------------------------------------------------------------------
(* aggregate_data called on its own.                                       *)

\* One reading: the seven measurements in the order of Cols.
Reading(vals) ==
    [c \in ColSet |-> vals[CHOOSE k \in 1..Len(Cols) : Cols[k] = c]]

\* The same reading in a table that carries one more column.
WithExtra(v) == [c \in ColSet \cup {"Extra"} |-> IF c \in ColSet THEN v[c] ELSE R(7)]

AggReadings ==
    { Reading(<<R(1), R(1), R(230), R(1), R(1), R(1), R(1)>>),
      Reading(<<R(4), NaN, R(233), R(13), NaN, R(5), R(17)>>) }

Periods == {1, 2}

\* Rows in any order, timestamps repeated or not.
InitAggregate ==
    \E n \in 0..MaxAggRows, P \in Periods, extra \in BOOLEAN :
        \E ts \in [1..n -> 0..MaxAggTime], rs \in [1..n -> AggReadings] :
            Start("aggregate_data",
                  [DefaultConfig EXCEPT !.aggregation_level = P],
                  [i \in 1..n |->
                      [t |-> ts[i],
                       v |-> IF extra THEN WithExtra(rs[i]) ELSE rs[i]]],
                  <<>>)

CallAggregateData ==
    /\ op = "aggregate_data"
    /\ pc = "running"
    /\ df' = aggregate_data(input, config)
    /\ calls' = Append(calls, "aggregate_data")
    /\ pc' = "returned"
    /\ UNCHANGED <<config, input, arg, filled, columns, op, raised, report,
                   files, name, reads>>

NextAggregate == CallAggregateData

SpecAggregate == InitAggregate /\ [][NextAggregate]_vars

\* C4: the index returned by aggregate_data is strictly increasing (so free
\* of duplicates) and holds exactly one entry per period of the configured
\* granularity, from the period of the earliest input row to that of the
\* latest; rows of the same period, in any order, share that one entry.
C4_OneRowPerPeriod ==
    Returned("aggregate_data") =>
        LET P == config.aggregation_level
            periods == {input[i].t \div P : i \in 1..Len(input)}
        IN  /\ \A k \in 1..(Len(df) - 1) : df[k].t < df[k + 1].t
            /\ \A k \in 1..Len(df) : df[k].t % P = 0
            /\ \A b \in periods :
                   Cardinality({k \in 1..Len(df) : df[k].t = b * P}) = 1
            /\ \A k \in 1..Len(df) : \E b \in periods, e \in periods :
                   b * P <= df[k].t /\ df[k].t <= e * P
            /\ \A k \in 1..(Len(df) - 1) : df[k + 1].t = df[k].t + P

\* C4 witness: two rows of one period given with equal timestamps, after a
\* row of a later period, were aggregated.
C4_Witness ==
    /\ Returned("aggregate_data")
    /\ Len(input) = 3
    /\ input[1].t > input[2].t
    /\ input[2].t = input[3].t
    /\ Len(df) >= 2

\* The sum of column c over the rows I of t that have a value there.
RECURSIVE TotalOf(_, _, _)
TotalOf(t, c, I) ==
    IF I = {} THEN R(0)
    ELSE LET i == CHOOSE j \in I : TRUE
         IN  RAdd(t[i].v[c], TotalOf(t, c, I \ {i}))

\* C7: in every bucket with a source row the four power/voltage/intensity
\* columns hold the arithmetic mean of the bucket's values and the three
\* sub-metering columns their sum (missing entries do not count); the output
\* has these seven columns and no other.
C7_MeanAndSum ==
    Returned("aggregate_data") =>
        \A k \in 1..Len(df) :
            LET P == config.aggregation_level
                rows == {i \in 1..Len(input) : input[i].t \div P = df[k].t \div P}
            IN  /\ DOMAIN df[k].v = ColSet
                /\ rows # {} =>
                     \A c \in ColSet :
                        LET have == {i \in rows : ~IsNaN(input[i].v[c])}
                            total == TotalOf(input, c, have)
                        IN  IF c \in {"Sub_metering_1", "Sub_metering_2",
                                      "Sub_metering_3"}
                            THEN df[k].v[c] = total
                            ELSE IF have = {} THEN IsNaN(df[k].v[c])
                            ELSE RMul(df[k].v[c], R(Cardinality(have))) = total

\* C7 witness: a bucket of three rows, each 1.0 in Sub_metering_1 and 230.0
\* in Voltage, came out as 3.0 and 230.0, from a table with a further column.
C7_Witness ==
    /\ Returned("aggregate_data")
    /\ Len(input) = 3
    /\ Len(df) = 1
    /\ \A i \in 1..3 : /\ input[i].v["Sub_metering_1"] = R(1)
                       /\ input[i].v["Voltage"] = R(230)
                       /\ "Extra" \in DOMAIN input[i].v
    /\ df[1].v["Sub_metering_1"] = R(3)
    /\ df[1].v["Voltage"] = R(230)

---------------------------------------------------------------------------
(* remove_outliers called on its own.                                      *)

Thresholds == {R(1), <<5, 4>>}

ColumnArgs ==
    { <<"Global_active_power">>,
      <<"Global_active_power", "Sub_metering_1">>,
      <<"Sub_metering_1", "Global_active_power">>,
      NumericColumns }

\* A table of n rows: Global_active_power is a[i], Sub_metering_1 is b[i]
\* (missing in the last row when hole), every other column holds the row's
\* number.
OutlierTable(n, a, b, hole) ==
    [i \in 1..n |->
        [t |-> i - 1,
         v |-> [c \in ColSet |->
                  IF c = "Global_active_power" THEN R(a[i])
                  ELSE IF c = "Sub_metering_1"
                  THEN (IF hole /\ i = n THEN NaN ELSE R(b[i]))
                  ELSE R(i)]]]

InitOutliers ==
    \E n \in 0..MaxOutRows, T \in Thresholds, cols \in ColumnArgs :
        \E a \in [1..n -> {0, 1}], b \in [1..n -> {0, 1}], hole \in BOOLEAN :
            Start("remove_outliers",
                  [DefaultConfig EXCEPT !.outlier_threshold = T],
                  OutlierTable(n, a, b, hole), cols)

CallRemoveOutliers ==
    /\ op = "remove_outliers"
    /\ pc = "running"
    /\ \E r \in {remove_outliers(input, columns, config)} :
           /\ raised' = r.raised
           /\ report' = r.report
           /\ pc' = IF r.raised = "none" THEN "returned" ELSE "raised"
           /\ df' = IF r.raised = "none" THEN r.df ELSE df
    /\ calls' = Append(calls, "remove_outliers")
    /\ UNCHANGED <<config, input, arg, filled, columns, op, files, name, reads>>

NextOutliers == CallRemoveOutliers

SpecOutliers == InitOutliers /\ [][NextOutliers]_vars

\* The population mean and variance of s: <<mean, var>>.
Moments(s) ==
    The({ <<mean, RDivInt(RSum([i \in 1..Len(s) |->
                                  RMul(RSub(s[i], mean), RSub(s[i], mean))]),
                          Len(s))>>
          : mean \in {RDivInt(RSum(s), Len(s))} })

\* |z| < T for the value x in a population with moments m, z being the
\* population z-score (x - mean) / std; false when the z-score is undefined
\* (a missing value in the population, or a standard deviation of 0).
AbsZBelow(x, m, T) ==
    LET d == RSub(x, m[1])
        var == m[2]
    IN  /\ ~IsNaN(var)
        /\ var # R(0)
        /\ ~IsNaN(d)
        /\ d[1] * d[1] * T[2] * T[2] * var[2] < T[1] * T[1] * var[1] * d[2] * d[2]

\* The rows of t still retained once the first k columns of cols have been
\* processed.
KeepBelow(prev, c, m, T) ==
    The({ SelectSeq(prev, LAMBDA r : AbsZBelow(r.v[c], mm, T)) : mm \in {m} })

\* The rows of t still retained once the first k columns of cols have been
\* processed.
RECURSIVE Survivors(_, _, _, _)
Survivors(t, cols, T, k) ==
    IF k = 0 THEN t
    ELSE \* the k-th column is tested against the survivors of the first k - 1
         CHOOSE next \in { KeepBelow(prev, cols[k], Moments(Column(prev, cols[k])), T) :
                             prev \in {Survivors(t, cols, T, k - 1)} } : TRUE

\* The moments of each checked column at the time it is processed: those of
\* the first over t, those of the next over the rows the first left, ...
RECURSIVE MomentsWhenProcessed(_, _, _)
MomentsWhenProcessed(t, cols, T) ==
    IF cols = <<>> THEN <<>>
    ELSE CHOOSE ms \in { <<m>> \o MomentsWhenProcessed(KeepBelow(t, cols[1], m, T),
                                                     Tail(cols), T) :
                           m \in {Moments(Column(t, cols[1]))} } : TRUE

\* C2 as stated: every retained row has, for every checked column, |z| below
\* the threshold with the z-score taken over the full column of the input.
C2_BelowThresholdOverInput ==
    Returned("remove_outliers") =>
        \A k \in 1..Len(columns) :
            LET m == Moments(Column(input, columns[k]))
            IN  \A i \in 1..Len(df) :
                    AbsZBelow(df[i].v[columns[k]], m, config.outlier_threshold)

\* C2 amended: every retained row has, for every checked column, |z| strictly
\* below the threshold with the z-score taken over the rows still retained
\* when that column is processed (the full input column for the first).
C2_BelowThresholdWhenProcessed ==
    Returned("remove_outliers") =>
        \A m \in {MomentsWhenProcessed(input, columns, config.outlier_threshold)} :
            \A i \in 1..Len(df) : \A k \in 1..Len(columns) :
                AbsZBelow(df[i].v[columns[k]], m[k], config.outlier_threshold)

\* C2 witness: two columns were checked, the first filter removed rows, and
\* rows were retained at the end.
C2_Witness ==
    /\ Returned("remove_outliers")
    /\ Len(columns) = 2
    /\ Len(Survivors(input, columns, config.outlier_threshold, 1)) < Len(input)
    /\ Len(df) > 0

\* C8: remove_outliers is a fold over the columns in iteration order: a row
\* is kept iff it passes every column's test, the k-th test taking the
\* z-scores over the rows that survived the columns before the k-th.
C8_SequentialFold ==
    Returned("remove_outliers") =>
        \A m \in {MomentsWhenProcessed(input, columns, config.outlier_threshold)} :
            df = SelectSeq(input, LAMBDA r :
                    \A k \in 1..Len(columns) :
                        AbsZBelow(r.v[columns[k]], m[k], config.outlier_threshold))

\* The result is not a fixed point: a retained row has a defined z-score, in
\* a checked column, at or above the threshold against the returned table.
NotFixedPoint ==
    \E i \in 1..Len(df) : \E k \in 1..Len(columns) :
        /\ \A j \in 1..Len(df) : ~IsNaN(df[j].v[columns[k]])
        /\ \E j \in 1..Len(df) : df[j].v[columns[k]] # df[i].v[columns[k]]
        /\ ~AbsZBelow(df[i].v[columns[k]], Moments(Column(df, columns[k])),
                      config.outlier_threshold)

\* Iterating the same columns in the reverse order keeps other rows.
OrderMatters ==
    Survivors(input, Reverse(columns), config.outlier_threshold, Len(columns))
        # df

\* C8 witness: two columns were checked one after the other; the returned
\* table is not a fixed point, and the reverse order keeps other rows.
C8_Witness ==
    /\ Returned("remove_outliers")
    /\ Len(columns) = 2
    /\ Len(df) > 0
    /\ NotFixedPoint
    /\ OrderMatters

---------------------------------------------------------------------------
(* DataPreprocessor.preprocess_pipeline, stage by stage.                   *)

PipelineOrderOutliersFirst ==
    <<"handle_missing_values", "remove_outliers", "aggregate_data">>

\* The stages in the order the pipeline calls them.
PipelineOrder == <<"handle_missing_values", "aggregate_data", "remove_outliers">>

\* The statement the pipeline is at.
NextStage ==
    IF Len(calls) < Len(PipelineOrder) THEN PipelineOrder[Len(calls) + 1]
    ELSE "return"

AtStage(stage) ==
    /\ op = "preprocess_pipeline"
    /\ pc = "running"
    /\ NextStage = stage

\* df = self.handle_missing_values(df)
PipeHandleMissingValues ==
    /\ AtStage("handle_missing_values")
    /\ arg' = df
    /\ filled' = Fillna(df, config.fill_method)
    /\ df' = handle_missing_values(df, config)
    /\ calls' = Append(calls, "handle_missing_values")
    /\ UNCHANGED <<config, input, columns, op, raised, report, files, name,
                   reads, pc>>

\* df = self.aggregate_data(df)
PipeAggregateData ==
    /\ AtStage("aggregate_data")
    /\ arg' = df
    /\ df' = aggregate_data(df, config)
    /\ calls' = Append(calls, "aggregate_data")
    /\ UNCHANGED <<config, input, filled, columns, op, raised, report, files,
                   name, reads, pc>>

\* df = self.remove_outliers(df); an exception leaves the pipeline.
PipeRemoveOutliers ==
    /\ AtStage("remove_outliers")
    /\ arg' = df
    /\ columns' = NumericColumns
    /\ \E r \in {remove_outliers(df, NumericColumns, config)} :
           /\ raised' = r.raised
           /\ report' = r.report
           /\ pc' = IF r.raised = "none" THEN pc ELSE "raised"
           /\ df' = IF r.raised = "none" THEN r.df ELSE df
    /\ calls' = Append(calls, "remove_outliers")
    /\ UNCHANGED <<config, input, filled, op, files, name, reads>>

\* return df
PipeReturn ==
    /\ AtStage("return")
    /\ pc' = "returned"
    /\ UNCHANGED <<config, input, arg, filled, df, columns, op, calls, raised,
                   report, files, name, reads>>

\* Readings of the raw table: Global_active_power is a, every other column o.
Mk(a, o) == [c \in ColSet |-> IF c = "Global_active_power" THEN a ELSE o]

PipeReadings ==
    { Mk(R(0), R(0)), Mk(R(0), R(1)), Mk(R(0), R(2)), Mk(R(1), NaN) }

PipeThresholds == {<<3, 2>>, R(2)}

\* The elements of a set of numbers in increasing order.
RECURSIVE Ascending(_)
Ascending(S) ==
    IF S = {} THEN <<>> ELSE <<SetMin(S)>> \o Ascending(S \ {SetMin(S)})

\* A raw table: one reading at each minute of a set of minutes.
InitPipeline ==
    \E S \in SUBSET (0..MaxPipeTime), P \in Periods, T \in PipeThresholds :
        \E rs \in [S -> PipeReadings] :
            Start("preprocess_pipeline",
                  [DefaultConfig EXCEPT !.aggregation_level = P,
                                        !.outlier_threshold = T],
                  [i \in 1..Cardinality(S) |->
                      [t |-> Ascending(S)[i], v |-> rs[Ascending(S)[i]]]],
                  <<>>)

NextPipeline ==
    \/ PipeHandleMissingValues
    \/ PipeAggregateData
    \/ PipeRemoveOutliers
    \/ PipeReturn

SpecPipeline == InitPipeline /\ [][NextPipeline]_vars

IsPrefix(s, t) == Len(s) <= Len(t) /\ \A i \in 1..Len(s) : s[i] = t[i]

\* C5: the pipeline calls handle_missing_values, aggregate_data and
\* remove_outliers in that order, each once, each on the table the stage
\* before it returned; remove_outliers therefore works on aggregated rows,
\* and the table returned is
\* remove_outliers(aggregate_data(handle_missing_values(input))).
C5_FixedStageOrder ==
    op = "preprocess_pipeline" =>
        /\ IsPrefix(calls, <<"handle_missing_values", "aggregate_data",
                             "remove_outliers">>)
        /\ Len(calls) = 0 => df = input
        /\ Len(calls) = 1 =>
               arg = input /\ df = handle_missing_values(input, config)
        /\ Len(calls) = 2 =>
               /\ arg = handle_missing_values(input, config)
               /\ df = aggregate_data(arg, config)
        /\ Len(calls) = 3 =>
               /\ arg = aggregate_data(handle_missing_values(input, config), config)
               /\ raised = "none" =>
                      df = remove_outliers(arg, NumericColumns, config).df
        /\ pc = "returned" => Len(calls) = 3 /\ raised = "none"

\* C5 witness: the pipeline returned rows, after aggregation had merged raw
\* rows for the outlier filter.
C5_Witness ==
    /\ Returned("preprocess_pipeline")
    /\ 1 < Len(arg)
    /\ Len(arg) < Len(input)
    /\ 0 < Len(df)

\* C9: remove_outliers completes without raising for every table, a table of
\* zero rows included; it reports the count and percentage of rows removed
\* and returns the filtered table.
C9_RemoveOutliersCompletes ==
    (op = "preprocess_pipeline" /\ Len(calls) = 3) =>
        /\ raised = "none"
        /\ report # NoReport
        /\ report[1] = Len(arg) - Len(df)

HasMissing(s) == \E i \in 1..Len(s) : IsNaN(s[i])
AllEqual(s) == Len(s) > 0 /\ \A i \in 1..Len(s) : s[i] = s[1]

\* Each checked column as it stands when it is processed: the first over t,
\* the next over the rows the first left, ...
RECURSIVE ColumnsWhenProcessed(_, _, _)
ColumnsWhenProcessed(t, cols, T) ==
    IF cols = <<>> THEN <<>>
    ELSE <<Column(t, cols[1])>> \o
         ColumnsWhenProcessed(KeepBelow(t, cols[1], Moments(Column(t, cols[1])), T),
                              Tail(cols), T)

\* A checked column whose z-scores are undefined when it is processed forces
\* an empty result.
UndefinedZEmptiesResult ==
    \A pops \in {ColumnsWhenProcessed(arg, columns, config.outlier_threshold)} :
        \A k \in 1..Len(columns) :
            (HasMissing(pops[k]) \/ AllEqual(pops[k])) => df = <<>>

\* C10 as stated: a checked column that holds a missing value or is constant
\* when remove_outliers processes it leaves zero rows; hence a table
\* returned by the pipeline has no missing value in a checked column and no
\* constant checked column.
C10_NoMissingNoConstant ==
    (op = "preprocess_pipeline" /\ Len(calls) = 3 /\ raised = "none") =>
        /\ UndefinedZEmptiesResult
        /\ pc = "returned" =>
               \A k \in 1..Len(columns) :
                   /\ ~HasMissing(Column(df, columns[k]))
                   /\ ~AllEqual(Column(df, columns[k]))

\* C10 amended: as stated, except that a returned table may hold a constant
\* checked column: it has no missing value in any checked column.
C10_NoMissingReturned ==
    (op = "preprocess_pipeline" /\ Len(calls) = 3 /\ raised = "none") =>
        /\ UndefinedZEmptiesResult
        /\ pc = "returned" =>
               \A k \in 1..Len(columns) : ~HasMissing(Column(df, columns[k]))

\* C10 witness: aggregation left a bucket without source rows, so a mean
\* column was missing there, and the pipeline returned zero rows.
C10_Witness ==
    /\ Returned("preprocess_pipeline")
    /\ \E i \in 1..Len(arg) : IsNaN(arg[i].v["Voltage"])
    /\ \A i \in 1..Len(arg) : ~IsNaN(arg[i].v["Sub_metering_1"])
    /\ df = <<>>

---------------------------------------------------------------------------
(* DataLoader.load_processed_data and save_processed_data.                 *)

FileNames == {"hourly_consumption.csv", "daily_consumption.csv", "missing.csv"}

\* What a path of the processed directory holds: nothing, or a file with a
\* header line and data lines (a file of zero bytes has neither).
Absent == [kind |-> "absent", header |-> <<>>, lines |-> <<>>]
EmptyFile == [kind |-> "file", header |-> <<>>, lines |-> <<>>]

\* df.to_csv(filepath): the index first, then the columns; a missing value is
\* written as an empty field.
to_csv(t) ==
    [kind |-> "file",
     header |-> <<"datetime">> \o Cols,
     lines |-> [i \in 1..Len(t) |->
                  <<t[i].t>> \o [k \in 1..Len(Cols) |->
                                   IF IsNaN(t[i].v[Cols[k]]) THEN <<>>
                                   ELSE t[i].v[Cols[k]]]]]

\* pd.read_csv(path, index_col=0, parse_dates=True): the exception raised
\* ("none" if none) and the table read; an empty field is a missing value.
read_csv(file) ==
    IF file.kind = "absent"
    THEN [raised |-> "FileNotFoundError", df |-> <<>>]
    ELSE IF file.header = <<>>
    THEN [raised |-> "EmptyDataError", df |-> <<>>]
    ELSE [raised |-> "none",
          df |-> [i \in 1..Len(file.lines) |->
                    [t |-> file.lines[i][1],
                     v |-> [c \in {file.header[k] : k \in 2..Len(file.header)} |->
                              LET k == CHOOSE j \in 2..Len(file.header) :
                                           file.header[j] = c
                              IN  IF file.lines[i][k] = <<>> THEN NaN
                                  ELSE file.lines[i][k]]]]]

ExistsAlways(fs, n) == TRUE

\* os.path.exists(processed_path)
Exists(fs, n) == fs[n].kind # "absent"

SaveTables ==
    { <<>>,
      <<[t |-> 0, v |-> Mk(R(1), R(2))]>>,
      <<[t |-> 0, v |-> Mk(<<3, 2>>, R(0))], [t |-> 2, v |-> Mk(NaN, R(0))]>> }

InitLoader ==
    /\ op = "none"
    /\ config = DefaultConfig
    /\ input = <<>>
    /\ arg = <<>>
    /\ filled = <<>>
    /\ df = <<>>
    /\ columns = <<>>
    /\ calls = <<>>
    /\ raised = "none"
    /\ report = NoReport
    /\ files \in [FileNames -> {Absent, EmptyFile}]
    /\ name = ""
    /\ reads = 0
    /\ pc = "idle"

LoadProcessedData ==
    \E n \in FileNames :
        /\ Len(calls) < MaxOps
        /\ op' = "load_processed_data"
        /\ name' = n
        /\ calls' = Append(calls, "load_processed_data")
        /\ IF ~Exists(files, n)
           THEN /\ raised' = "FileNotFoundError"
                /\ pc' = "raised"
                /\ UNCHANGED <<df, reads>>
           ELSE /\ reads' = reads + 1
                /\ \E r \in {read_csv(files[n])} :
                       /\ raised' = r.raised
                       /\ pc' = IF r.raised = "none" THEN "returned" ELSE "raised"
                       /\ df' = IF r.raised = "none" THEN r.df ELSE df
        /\ UNCHANGED <<config, input, arg, filled, columns, report, files>>

SaveProcessedData ==
    \E n \in FileNames, t \in SaveTables :
        /\ Len(calls) < MaxOps
        /\ op' = "save_processed_data"
        /\ name' = n
        /\ input' = t
        /\ calls' = Append(calls, "save_processed_data")
        /\ files' = [files EXCEPT ![n] = to_csv(t)]
        /\ raised' = "none"
        /\ pc' = "returned"
        /\ UNCHANGED <<config, arg, filled, df, columns, report, reads>>

NextLoader == LoadProcessedData \/ SaveProcessedData

SpecLoader == InitLoader /\ [][NextLoader]_vars

\* C6: load_processed_data(name) raises FileNotFoundError exactly when no
\* file of that name is in the processed directory; it raises it before any
\* read is attempted, returns no table and changes no file.
C6_NotFoundIffAbsent ==
    [][(op' = "load_processed_data" /\ Len(calls') = Len(calls) + 1) =>
          /\ (files[name'].kind = "absent") <=> (raised' = "FileNotFoundError")
          /\ raised' = "FileNotFoundError" =>
                 /\ pc' = "raised"
                 /\ reads' = reads
                 /\ df' = df
          /\ files' = files]_vars

\* C6 witness: a load of a name that is not in the directory raised
\* FileNotFoundError while a file saved earlier under the other name exists.
C6_Witness ==
    /\ op = "load_processed_data"
    /\ raised = "FileNotFoundError"
    /\ pc = "raised"
    /\ files[name].kind = "absent"
    /\ \E n \in FileNames : files[n].kind = "file" /\ files[n].header # <<>>
    /\ reads = 0

=============================================================================
